---- MODULE Spec2Model ----
(***************************************************************************)
(* Conflict-chunk engine of gitsynth (agent/tool_utils.go).                *)
(*                                                                         *)
(* A string is a sequence of one-character strings, so that                *)
(* strings.Split, strings.Join and strings.HasPrefix are computed          *)
(* character by character as the Go library computes them.  The file on    *)
(* disk is one such string.  There is one file; it exists or it does not.  *)
(***************************************************************************)
EXTENDS Integers, Sequences, FiniteSets, TLC

VARIABLES
    file,   \* content of the file on disk
    last,   \* the most recent call: its arguments, its result and the
            \* content of the file before it
    scan,   \* what the most recent FindConflictChunks call of a caller returned
    orig,   \* content of the file when the caller started (history variable)
    plan,   \* ordered caller: order and, per original chunk id, replacement text
    pc,     \* ordered caller: number of calls it has made
    exists, \* whether the file is there (os.Stat finds it)
    procs,  \* concurrent callers: per caller, where its call stands
    log,    \* the read calls made so far, each with its result
    bot,    \* the GitHub bot handling one pull_request event
    agent,  \* Agent.Run: its conversation and where its loop stands
    handler \* RunHandler handling one /api/run request

vars == <<file, last, scan, orig, plan, pc, exists, procs, log, bot, agent,
          handler>>

----------------------------------------------------------------------------
(* Bounds of the model *)

\* Number of blocks (single lines or whole regions) an initial file is made of.
MaxBlocks == 3

----------------------------------------------------------------------------
(* Strings *)

NL == "\n"

StartMarker == <<"<", "<", "<", "<", "<", "<", "<">>

DividerMarker == <<"=", "=", "=", "=", "=", "=", "=">>

EndMarker == <<">", ">", ">", ">", ">", ">", ">">>

\* strings.HasPrefix(s, prefix)
HasPrefix(s, prefix) ==
    /\ Len(s) >= Len(prefix)
    /\ SubSeq(s, 1, Len(prefix)) = prefix

\* strings.Index(s, "\n"): the position (1-based) of the first "\n" of s,
\* 0 when there is none.
IndexNL(s) ==
    IF \E i \in 1..Len(s) : s[i] = NL
    THEN CHOOSE i \in 1..Len(s) :
             s[i] = NL /\ \A j \in 1..(i - 1) : s[j] # NL
    ELSE 0

\* strings.Split(s, "\n"): the fields between the separators, in order; a
\* string with no separator (the empty string included) is one field.
RECURSIVE Split(_)
Split(s) ==
    LET m == IndexNL(s)
    IN  IF m = 0 THEN <<s>>
        ELSE <<SubSeq(s, 1, m - 1)>> \o Split(SubSeq(s, m + 1, Len(s)))

\* Join as a bug would have it: "\n" after every element, the last included.
RECURSIVE JoinTrailingNewline(_)
JoinTrailingNewline(elems) ==
    IF Len(elems) = 0 THEN <<>>
    ELSE elems[1] \o <<NL>> \o JoinTrailingNewline(Tail(elems))

\* strings.Join(elems, "\n"); the join of no elements is the empty string.
RECURSIVE Join(_)
Join(elems) ==
    IF Len(elems) = 0 THEN <<>>
    ELSE IF Len(elems) = 1 THEN elems[1]
    ELSE elems[1] \o <<NL>> \o Join(Tail(elems))

\* strings.Contains(s, substr)
Contains(s, substr) ==
    \E i \in 1..(Len(s) - Len(substr) + 1) :
        SubSeq(s, i, i + Len(substr) - 1) = substr

----------------------------------------------------------------------------
(* FindConflictChunks *)

\* type ConflictChunk
ConflictChunk(id, base, incoming, startLine, endLine) ==
    [ID |-> id, BaseCode |-> base, IncomingCode |-> incoming,
     StartLine |-> startLine, EndLine |-> endLine]

\* The locals of FindConflictChunks before the loop.
ScanInit ==
    [chunks |-> <<>>, inConflict |-> FALSE,
     currentChunk |-> ConflictChunk(0, <<>>, <<>>, 0, 0),
     baseLines |-> <<>>, incomingLines |-> <<>>, currentID |-> 0,
     err |-> "nil"]

\* OnStartMarker as a bug would have it: a start line inside an open region
\* starts the region over instead of failing.
OnStartMarkerReopens(st, lineNum) ==
    [st EXCEPT !.inConflict = TRUE,
               !.currentChunk =
                   ConflictChunk(st.currentID, <<>>, <<>>, lineNum, 0)]

\* OnStartMarker as a bug would have it: the 0-based index of the line
\* instead of its 1-based number as StartLine.
OnStartMarkerZeroBased(st, lineNum) ==
    IF st.inConflict THEN [st EXCEPT !.err = "nested"]
    ELSE [st EXCEPT !.inConflict = TRUE,
                    !.currentChunk =
                        ConflictChunk(st.currentID, <<>>, <<>>, lineNum - 1, 0)]

\* A line with the start prefix: nested when a region is open, else a new
\* currentChunk (BaseCode and IncomingCode empty) with the next ID.
OnStartMarker(st, lineNum) ==
    IF st.inConflict THEN [st EXCEPT !.err = "nested"]
    ELSE [st EXCEPT !.inConflict = TRUE,
                    !.currentChunk =
                        ConflictChunk(st.currentID, <<>>, <<>>, lineNum, 0)]

\* A line with the divider prefix inside a region.
OnDivider(st) ==
    [st EXCEPT !.currentChunk.BaseCode = Join(st.baseLines),
               !.baseLines = <<>>]

\* OnEndMarker as a bug would have it: currentID is not incremented.
OnEndMarkerKeepsID(st, lineNum) ==
    LET closed == [st.currentChunk EXCEPT
                       !.IncomingCode = Join(st.incomingLines),
                       !.EndLine = lineNum]
    IN  [st EXCEPT !.inConflict = FALSE,
                   !.currentChunk = closed,
                   !.chunks = Append(st.chunks, closed),
                   !.incomingLines = <<>>]

\* A line with the end prefix inside a region: the chunk is appended.
OnEndMarker(st, lineNum) ==
    LET closed == [st.currentChunk EXCEPT
                       !.IncomingCode = Join(st.incomingLines),
                       !.EndLine = lineNum]
    IN  [st EXCEPT !.inConflict = FALSE,
                   !.currentChunk = closed,
                   !.chunks = Append(st.chunks, closed),
                   !.incomingLines = <<>>,
                   !.currentID = st.currentID + 1]

\* Any other line inside a region: which side it is appended to.
OnOtherLine(st, line) ==
    IF Len(st.baseLines) = 0 /\ st.currentChunk.BaseCode = <<>> THEN
        [st EXCEPT !.baseLines = Append(st.baseLines, line)]
    ELSE IF st.currentChunk.BaseCode # <<>> THEN
        [st EXCEPT !.incomingLines = Append(st.incomingLines, line)]
    ELSE
        [st EXCEPT !.baseLines = Append(st.baseLines, line)]

\* One iteration of the loop over the lines: line number lineNum, text line.
ScanStep(st, lineNum, line) ==
    IF HasPrefix(line, StartMarker) THEN OnStartMarker(st, lineNum)
    ELSE IF st.inConflict /\ HasPrefix(line, DividerMarker) THEN OnDivider(st)
    ELSE IF st.inConflict /\ HasPrefix(line, EndMarker)
    THEN OnEndMarker(st, lineNum)
    ELSE IF st.inConflict THEN OnOtherLine(st, line)
    ELSE st

\* The loop: lines i..Len(lines), left as soon as an iteration returns.
RECURSIVE ScanLoop(_, _, _)
ScanLoop(st, lines, i) ==
    IF i > Len(lines) \/ st.err # "nil" THEN st
    ELSE ScanLoop(ScanStep(st, i, lines[i]), lines, i + 1)

\* FindConflictChunks as a bug would have it: no check for an open region
\* after the loop.
FindConflictChunksNoUnclosedCheck(content) ==
    LET st == ScanLoop(ScanInit, Split(content), 1)
    IN  IF st.err # "nil" THEN [chunks |-> <<>>, err |-> st.err]
        ELSE [chunks |-> st.chunks, err |-> "nil"]

\* FindConflictChunks(content): the chunks and the error ("nil" for none).
FindConflictChunks(content) ==
    LET st == ScanLoop(ScanInit, Split(content), 1)
    IN  IF st.err # "nil" THEN [chunks |-> <<>>, err |-> st.err]
        ELSE IF st.inConflict THEN [chunks |-> <<>>, err |-> "unclosed"]
        ELSE [chunks |-> st.chunks, err |-> "nil"]

\* HasMergeConflicts for an existing, readable file with this content.
HasMergeConflicts(content) == Contains(content, StartMarker)

----------------------------------------------------------------------------
(* ReplaceConflictChunk *)

\* ReplaceConflictChunk as bugs would have it.
\* The tail is taken from lines[endLine:], so the end marker line stays.
ReplaceConflictChunkKeepsEndMarker(content, chunkID, newContent) ==
    LET found == FindConflictChunks(content)
        chunks == found.chunks
    IN  IF found.err # "nil" THEN [err |-> found.err, file |-> content]
        ELSE IF chunkID < 0 \/ chunkID >= Len(chunks)
        THEN [err |-> "out of range", file |-> content]
        ELSE
            LET targetChunk == chunks[chunkID + 1]
                lines == Split(content)
                startLine == targetChunk.StartLine - 1
                endLine == targetChunk.EndLine - 1
                newLines == SubSeq(lines, 1, startLine)
                            \o Split(newContent)
                            \o SubSeq(lines, endLine + 1, Len(lines))
            IN  [err |-> "nil", file |-> Join(newLines)]

\* The head is taken from lines[:startLine-1], so the line before the span
\* goes too.
ReplaceConflictChunkCutsLineBefore(content, chunkID, newContent) ==
    LET found == FindConflictChunks(content)
        chunks == found.chunks
    IN  IF found.err # "nil" THEN [err |-> found.err, file |-> content]
        ELSE IF chunkID < 0 \/ chunkID >= Len(chunks)
        THEN [err |-> "out of range", file |-> content]
        ELSE
            LET targetChunk == chunks[chunkID + 1]
                lines == Split(content)
                startLine == targetChunk.StartLine - 1
                endLine == targetChunk.EndLine - 1
                newLines == SubSeq(lines, 1, startLine - 1)
                            \o Split(newContent)
                            \o SubSeq(lines, endLine + 2, Len(lines))
            IN  [err |-> "nil", file |-> Join(newLines)]

\* An id outside the range addresses the nearest chunk instead of failing.
ReplaceConflictChunkClampsID(content, chunkID, newContent) ==
    LET found == FindConflictChunks(content)
        chunks == found.chunks
        id == IF chunkID < 0 THEN 0
              ELSE IF chunkID >= Len(chunks) THEN Len(chunks) - 1
              ELSE chunkID
    IN  IF found.err # "nil" THEN [err |-> found.err, file |-> content]
        ELSE IF Len(chunks) = 0
        THEN [err |-> "out of range", file |-> content]
        ELSE
            LET targetChunk == chunks[id + 1]
                lines == Split(content)
                startLine == targetChunk.StartLine - 1
                endLine == targetChunk.EndLine - 1
                newLines == SubSeq(lines, 1, startLine)
                            \o Split(newContent)
                            \o SubSeq(lines, endLine + 2, Len(lines))
            IN  [err |-> "nil", file |-> Join(newLines)]

\* The range is checked before the scan's error.
ReplaceConflictChunkRangeFirst(content, chunkID, newContent) ==
    LET found == FindConflictChunks(content)
        chunks == found.chunks
    IN  IF chunkID < 0 \/ chunkID >= Len(chunks)
        THEN [err |-> "out of range", file |-> content]
        ELSE IF found.err # "nil" THEN [err |-> found.err, file |-> content]
        ELSE
            LET targetChunk == chunks[chunkID + 1]
                lines == Split(content)
                startLine == targetChunk.StartLine - 1
                endLine == targetChunk.EndLine - 1
                newLines == SubSeq(lines, 1, startLine)
                            \o Split(newContent)
                            \o SubSeq(lines, endLine + 2, Len(lines))
            IN  [err |-> "nil", file |-> Join(newLines)]

\* The range check reads chunkID > len(chunks): an id equal to the number
\* of chunks passes it and chunks[chunkID] panics.
ReplaceConflictChunkOffByOneCheck(content, chunkID, newContent) ==
    LET found == FindConflictChunks(content)
        chunks == found.chunks
    IN  IF found.err # "nil" THEN [err |-> found.err, file |-> content]
        ELSE IF chunkID < 0 \/ chunkID > Len(chunks)
        THEN [err |-> "out of range", file |-> content]
        ELSE IF chunkID = Len(chunks)
        THEN [err |-> "panic", file |-> content]
        ELSE
            LET targetChunk == chunks[chunkID + 1]
                lines == Split(content)
                startLine == targetChunk.StartLine - 1
                endLine == targetChunk.EndLine - 1
                newLines == SubSeq(lines, 1, startLine)
                            \o Split(newContent)
                            \o SubSeq(lines, endLine + 2, Len(lines))
            IN  [err |-> "nil", file |-> Join(newLines)]

\* ReplaceConflictChunk on a file holding content: the error returned and the
\* content of the file afterwards.
\* ReplaceConflictChunk as a bug would have it: the lines before the span
\* taken up to and including the start-marker line.
ReplaceConflictChunkKeepsStartMarker(content, chunkID, newContent) ==
    LET found == FindConflictChunks(content)
        chunks == found.chunks
    IN  IF found.err # "nil" THEN [err |-> found.err, file |-> content]
        ELSE IF chunkID < 0 \/ chunkID >= Len(chunks)
        THEN [err |-> "out of range", file |-> content]
        ELSE LET targetChunk == chunks[chunkID + 1]
                 lines == Split(content)
                 startLine == targetChunk.StartLine - 1
                 endLine == targetChunk.EndLine - 1
                 newLines == SubSeq(lines, 1, startLine + 1) \o Split(newContent)
                             \o SubSeq(lines, endLine + 2, Len(lines))
             IN  [err |-> "nil", file |-> Join(newLines)]

\* ReplaceConflictChunk as a bug would have it: the chunks are those of the
\* caller's earlier listing when there is one, not those of a scan of the
\* content just read; a span beyond the lines of the content is the panic
\* of a slice out of range.
ReplaceConflictChunkStaleRegistry(content, chunkID, newContent) ==
    LET found == FindConflictChunks(content)
        chunks == IF scan.err = "nil" THEN scan.chunks ELSE found.chunks
    IN  IF found.err # "nil" THEN [err |-> found.err, file |-> content]
        ELSE IF chunkID < 0 \/ chunkID >= Len(chunks)
        THEN [err |-> "out of range", file |-> content]
        ELSE LET targetChunk == chunks[chunkID + 1]
                 lines == Split(content)
                 startLine == targetChunk.StartLine - 1
                 endLine == targetChunk.EndLine - 1
             IN  IF endLine + 1 > Len(lines)
                 THEN [err |-> "panic", file |-> content]
                 ELSE [err |-> "nil",
                       file |-> Join(SubSeq(lines, 1, startLine)
                                     \o Split(newContent)
                                     \o SubSeq(lines, endLine + 2, Len(lines)))]

\* ReplaceConflictChunk as a bug would have it: the lines after the span
\* are not appended.
ReplaceConflictChunkDropsRest(content, chunkID, newContent) ==
    LET found == FindConflictChunks(content)
        chunks == found.chunks
    IN  IF found.err # "nil" THEN [err |-> found.err, file |-> content]
        ELSE IF chunkID < 0 \/ chunkID >= Len(chunks)
        THEN [err |-> "out of range", file |-> content]
        ELSE LET targetChunk == chunks[chunkID + 1]
                 lines == Split(content)
                 startLine == targetChunk.StartLine - 1
                 newLines == SubSeq(lines, 1, startLine) \o Split(newContent)
             IN  [err |-> "nil", file |-> Join(newLines)]

\* ReplaceConflictChunk on the content of the file: the error, and the
\* content the file is given (its own when nothing is written).
ReplaceConflictChunk(content, chunkID, newContent) ==
    LET found == FindConflictChunks(content)
        chunks == found.chunks
    IN  IF found.err # "nil" THEN [err |-> found.err, file |-> content]
        ELSE IF chunkID < 0 \/ chunkID >= Len(chunks)
        THEN [err |-> "out of range", file |-> content]
        ELSE
            LET targetChunk == chunks[chunkID + 1]
                lines == Split(content)
                startLine == targetChunk.StartLine - 1
                endLine == targetChunk.EndLine - 1
                newLines == SubSeq(lines, 1, startLine)
                            \o Split(newContent)
                            \o SubSeq(lines, endLine + 2, Len(lines))
            IN  [err |-> "nil", file |-> Join(newLines)]

----------------------------------------------------------------------------
(* Inputs *)

LineStart == StartMarker

LineDivider == DividerMarker

LineEnd == EndMarker \o <<" ", "B">>

\* A line that holds the start marker after its first character.
LineMidMarker == <<"a">> \o StartMarker

\* The blocks initial files are made of: each marker line alone, a text line,
\* an empty line, a line with a start marker inside it, a region with both
\* sides, a region with an empty ours side.
Blocks ==
    { <<LineStart>>, <<LineDivider>>, <<LineEnd>>, << <<"a">> >>, << <<>> >>,
      <<LineMidMarker>>,
      <<LineStart, <<"a">>, LineDivider, <<"b">>, LineEnd>>,
      <<LineStart, LineDivider, <<"b">>, LineEnd>> }

RECURSIVE Flatten(_)
Flatten(bs) == IF Len(bs) = 0 THEN <<>> ELSE Head(bs) \o Flatten(Tail(bs))

\* The text whose lines are these: "\n" between consecutive lines.
RECURSIVE TextOf(_)
TextOf(lines) ==
    IF Len(lines) = 0 THEN <<>>
    ELSE IF Len(lines) = 1 THEN lines[1]
    ELSE lines[1] \o <<NL>> \o TextOf(Tail(lines))

\* The contents the scanner is given: up to MaxBlocks blocks, joined by "\n".
Contents ==
    { TextOf(Flatten(bs)) :
        bs \in UNION { [1..n -> Blocks] : n \in 0..MaxBlocks } }

\* The blocks the files of a session are made of: a text line, an end-marker
\* line, a region with both sides, a region with an empty ours side.  (Files
\* with an open or a nested start marker arise from StartMarker replacements.)
FileBlocks ==
    { << <<"a">> >>, <<LineEnd>>,
      <<LineStart, <<"a">>, LineDivider, <<"b">>, LineEnd>>,
      <<LineStart, LineDivider, <<"b">>, LineEnd>> }

\* The contents a file starts a session with.
FileContents ==
    { TextOf(Flatten(bs)) :
        bs \in UNION { [1..n -> FileBlocks] : n \in 0..MaxBlocks } }

\* The replacement texts a caller passes: one line, an empty line and a
\* line, and a start-marker line.
NewContents ==
    { <<"x">>, <<NL, "y">>, StartMarker }

\* The chunk ids a caller passes.
ChunkIDs == {-1, 0, 1, 2}

NoCall == [op |-> "none"]

NoScan == [chunks |-> <<>>, err |-> "none"]

NoPlan == [order |-> "none", texts |-> <<>>]

NoProcs == <<>>

\* The value of the state of a part that takes no step in a specification.
Unused == [pc |-> "unused"]

----------------------------------------------------------------------------
(* The scanner and the probe on their own: FindConflictChunks and          *)
(* HasMergeConflicts applied, once each and in either order, to one file  *)

ScanInitState ==
    /\ file \in Contents
    /\ scan = NoScan
    /\ last = NoCall
    /\ orig = file
    /\ plan = NoPlan
    /\ pc = 0
    /\ exists = TRUE
    /\ procs = NoProcs
    /\ log = <<>>
    /\ bot = Unused
    /\ agent = Unused
    /\ handler = Unused

DoScan ==
    /\ scan = NoScan
    /\ scan' = FindConflictChunks(file)
    /\ UNCHANGED <<file, last, orig, plan, pc, exists, procs, log, bot, agent, handler>>

\* HasMergeConflicts on the file, which exists and is readable.
DoProbe ==
    /\ last = NoCall
    /\ exists
    /\ last' = [op |-> "probe", val |-> HasMergeConflicts(file)]
    /\ UNCHANGED <<file, scan, orig, plan, pc, exists, procs, log, bot, agent, handler>>

ScanNext == DoScan \/ DoProbe

SpecScan == ScanInitState /\ [][ScanNext]_vars

----------------------------------------------------------------------------
(* One ReplaceConflictChunk call on a file of any content.  What a call    *)
(* does depends on nothing but the content of the file and its arguments, *)
(* so a run is one call, started from any of the contents.                *)

Init ==
    /\ file \in Contents
    /\ last = NoCall
    /\ scan = NoScan
    /\ orig = file
    /\ plan = NoPlan
    /\ pc = 0
    /\ exists = TRUE
    /\ procs = NoProcs
    /\ log = <<>>
    /\ bot = Unused
    /\ agent = Unused
    /\ handler = Unused

Replace(chunkID, newContent) ==
    LET r == ReplaceConflictChunk(file, chunkID, newContent)
    IN  /\ last = NoCall
        /\ file' = r.file
        /\ last' = [op |-> "replace", id |-> chunkID, new |-> newContent,
                    err |-> r.err, before |-> file]
        /\ pc' = pc + 1
        /\ UNCHANGED <<scan, orig, plan, exists, procs, log, bot, agent, handler>>

Next ==
    \E chunkID \in ChunkIDs, newContent \in NewContents :
        Replace(chunkID, newContent)

Spec == Init /\ [][Next]_vars

----------------------------------------------------------------------------
(* A caller that lists the chunks of a file and then replaces every chunk,   *)
(* one call per chunk id, in descending or in ascending order of the ids     *)
(* it listed (DefaultPrompt, "Making Edits")                                 *)

NumChunks(content) == Len(FindConflictChunks(content).chunks)

\* The id of the caller's next call: it has made pc calls of n.
PlannedID(order, n, done) ==
    IF order = "descending" THEN n - 1 - done ELSE done

OrderedInit ==
    /\ file \in FileContents
    /\ last = NoCall
    /\ scan = FindConflictChunks(file)
    /\ orig = file
    /\ plan \in [order : {"descending", "ascending"},
                  texts : [1..NumChunks(file) -> NewContents]]
    /\ pc = 0
    /\ exists = TRUE
    /\ procs = NoProcs
    /\ log = <<>>
    /\ bot = Unused
    /\ agent = Unused
    /\ handler = Unused

OrderedReplace ==
    /\ pc < Len(scan.chunks)
    /\ LET chunkID == PlannedID(plan.order, Len(scan.chunks), pc)
           newContent == plan.texts[chunkID + 1]
           r == ReplaceConflictChunk(file, chunkID, newContent)
       IN  /\ file' = r.file
           /\ last' = [op |-> "replace", id |-> chunkID, new |-> newContent,
                       err |-> r.err, before |-> file]
    /\ pc' = pc + 1
    /\ UNCHANGED <<scan, orig, plan, exists, procs, log, bot, agent, handler>>

OrderedNext == OrderedReplace

SpecOrdered == OrderedInit /\ [][OrderedNext]_vars

----------------------------------------------------------------------------
(* A caller that replaces chunk 0 as many times as the file had chunks when *)
(* it started, each time by a marker-free text, and then calls once more,   *)
(* with any chunk id                                                        *)

\* The replacement texts of this caller: one line, an empty line and a line.
ResolveTexts == { <<"x">>, <<NL, "y">> }

ResolveInit ==
    /\ file \in FileContents
    /\ last = NoCall
    /\ scan = FindConflictChunks(file)
    /\ orig = file
    /\ plan = [order |-> "top", texts |-> <<>>]
    /\ pc = 0
    /\ exists = TRUE
    /\ procs = NoProcs
    /\ log = <<>>
    /\ bot = Unused
    /\ agent = Unused
    /\ handler = Unused

ResolveCall(chunkID, newContent) ==
    /\ pc <= Len(scan.chunks)
    /\ pc < Len(scan.chunks) => chunkID = 0
    /\ LET r == ReplaceConflictChunk(file, chunkID, newContent)
       IN  /\ file' = r.file
           /\ last' = [op |-> "replace", id |-> chunkID, new |-> newContent,
                       err |-> r.err, before |-> file]
    /\ plan' = [plan EXCEPT !.texts = Append(@, newContent)]
    /\ pc' = pc + 1
    /\ UNCHANGED <<scan, orig, exists, procs, log, bot, agent, handler>>

ResolveNext ==
    \E chunkID \in ChunkIDs, newContent \in ResolveTexts :
        ResolveCall(chunkID, newContent)

SpecResolve == ResolveInit /\ [][ResolveNext]_vars

----------------------------------------------------------------------------
(* The functions as they are called: with a path.  A result carries acc,    *)
(* the accesses to the file the call made, in order: "stat" (os.Stat),      *)
(* "read" (os.ReadFile), "write" (os.WriteFile).  there and content are     *)
(* what os.Stat and os.ReadFile find at the path.  An error is named by    *)
(* its cause; the text a caller wraps around it is left out.               *)

\* The path of the file.
FilePath == <<"f">>

\* The paths a caller passes: the empty path and the path of the file.
Paths == { <<>>, FilePath }

\* ValidateFileExists as a bug would have it: os.Stat before the test of the
\* empty path.
ValidateFileExistsStatFirst(path, there) ==
    IF path = <<>> \/ ~there
    THEN [err |-> "does not exist", acc |-> <<"stat">>]
    ELSE [err |-> "nil", acc |-> <<"stat">>]

\* ValidateFileExists(path)
ValidateFileExists(path, there) ==
    IF path = <<>> THEN [err |-> "empty path", acc |-> <<>>]
    ELSE IF ~there THEN [err |-> "does not exist", acc |-> <<"stat">>]
    ELSE [err |-> "nil", acc |-> <<"stat">>]

\* HasMergeConflicts(path)
HasMergeConflictsAt(path, there, content) ==
    LET v == ValidateFileExists(path, there)
    IN  IF v.err # "nil" THEN [val |-> FALSE, err |-> v.err, acc |-> v.acc]
        ELSE [val |-> HasMergeConflicts(content), err |-> "nil",
              acc |-> v.acc \o <<"read">>]

\* ReplaceConflictChunk(path, chunkID, newContent): the file is written only
\* when the scan succeeded and the id is in range.
ReplaceConflictChunkAt(path, chunkID, newContent, there, content) ==
    LET v == ValidateFileExists(path, there)
        r == ReplaceConflictChunk(content, chunkID, newContent)
    IN  IF v.err # "nil" THEN [err |-> v.err, file |-> content, acc |-> v.acc]
        ELSE IF r.err # "nil"
        THEN [err |-> r.err, file |-> content, acc |-> v.acc \o <<"read">>]
        ELSE [err |-> "nil", file |-> r.file,
              acc |-> v.acc \o <<"read", "write">>]

\* EditFileChunk as a bug would have it: no probe before the replacement.
EditFileChunkNoProbe(path, chunkID, newContent, there, content) ==
    LET v == ValidateFileExists(path, there)
        r == ReplaceConflictChunkAt(path, chunkID, newContent, there, content)
    IN  IF v.err # "nil"
        THEN [err |-> v.err, out |-> "", file |-> content, acc |-> v.acc]
        ELSE IF r.err # "nil"
        THEN [err |-> r.err, out |-> "", file |-> content,
              acc |-> v.acc \o r.acc]
        ELSE [err |-> "nil", out |-> "Successfully replaced conflict chunk",
              file |-> r.file, acc |-> v.acc \o r.acc]

\* EditFileChunk: the edit_file_chunk tool.
EditFileChunk(path, chunkID, newContent, there, content) ==
    LET v == ValidateFileExists(path, there)
        h == HasMergeConflictsAt(path, there, content)
        r == ReplaceConflictChunkAt(path, chunkID, newContent, there, content)
    IN  IF v.err # "nil"
        THEN [err |-> v.err, out |-> "", file |-> content, acc |-> v.acc]
        ELSE IF h.err # "nil"
        THEN [err |-> h.err, out |-> "", file |-> content,
              acc |-> v.acc \o h.acc]
        ELSE IF ~h.val
        THEN [err |-> "no merge conflicts found", out |-> "", file |-> content,
              acc |-> v.acc \o h.acc]
        ELSE IF r.err # "nil"
        THEN [err |-> r.err, out |-> "", file |-> content,
              acc |-> v.acc \o h.acc \o r.acc]
        ELSE [err |-> "nil", out |-> "Successfully replaced conflict chunk",
              file |-> r.file, acc |-> v.acc \o h.acc \o r.acc]

\* What see_file_chunks returns beside its error: nothing, the sentence "No
\* merge conflicts found in file", or the listing: the number of chunks and,
\* per chunk in the order of the list, its ID, lines, BaseCode, IncomingCode.
NoOutput == [kind |-> "none", found |-> 0, chunks |-> <<>>]

\* SeeFileChunks as a bug would have it: a content the scanner rejects is
\* reported as having no merge conflicts.
SeeFileChunksScanErrorAsClean(path, there, content) ==
    LET v == ValidateFileExists(path, there)
        h == HasMergeConflictsAt(path, there, content)
        found == FindConflictChunks(content)
    IN  IF v.err # "nil" THEN [err |-> v.err, out |-> NoOutput, acc |-> v.acc]
        ELSE IF h.err # "nil"
        THEN [err |-> h.err, out |-> NoOutput, acc |-> v.acc \o h.acc]
        ELSE IF ~h.val
        THEN [err |-> "nil",
              out |-> [kind |-> "no conflicts", found |-> 0, chunks |-> <<>>],
              acc |-> v.acc \o h.acc]
        ELSE IF found.err # "nil"
        THEN [err |-> "nil",
              out |-> [kind |-> "no conflicts", found |-> 0, chunks |-> <<>>],
              acc |-> v.acc \o h.acc \o <<"read">>]
        ELSE [err |-> "nil",
              out |-> [kind |-> "listing", found |-> Len(found.chunks),
                       chunks |-> found.chunks],
              acc |-> v.acc \o h.acc \o <<"read">>]

\* SeeFileChunks: the see_file_chunks tool.
SeeFileChunks(path, there, content) ==
    LET v == ValidateFileExists(path, there)
        h == HasMergeConflictsAt(path, there, content)
        found == FindConflictChunks(content)
    IN  IF v.err # "nil" THEN [err |-> v.err, out |-> NoOutput, acc |-> v.acc]
        ELSE IF h.err # "nil"
        THEN [err |-> h.err, out |-> NoOutput, acc |-> v.acc \o h.acc]
        ELSE IF ~h.val
        THEN [err |-> "nil",
              out |-> [kind |-> "no conflicts", found |-> 0, chunks |-> <<>>],
              acc |-> v.acc \o h.acc]
        ELSE IF found.err # "nil"
        THEN [err |-> found.err, out |-> NoOutput,
              acc |-> v.acc \o h.acc \o <<"read">>]
        ELSE [err |-> "nil",
              out |-> [kind |-> "listing", found |-> Len(found.chunks),
                       chunks |-> found.chunks],
              acc |-> v.acc \o h.acc \o <<"read">>]

----------------------------------------------------------------------------
(* One call of a tool or of ReplaceConflictChunk with a path, the file      *)
(* there or not                                                             *)

\* The blocks the file of a tool call is made of: a start-marker line, a text
\* line, a line with a start marker inside it, a region with both sides.
ToolBlocks ==
    { <<LineStart>>, << <<"a">> >>, <<LineMidMarker>>,
      <<LineStart, <<"a">>, LineDivider, <<"b">>, LineEnd>> }

ToolContents ==
    { TextOf(Flatten(bs)) :
        bs \in UNION { [1..n -> ToolBlocks] : n \in 0..MaxBlocks } }

\* The chunk ids and the replacement texts a tool call passes.
ToolChunkIDs == {-1, 0, 2}

ToolNewContents == { <<"x">>, StartMarker }

ToolsInit ==
    /\ exists \in BOOLEAN
    /\ file \in IF exists THEN ToolContents ELSE { <<>> }
    /\ last = NoCall
    /\ scan = NoScan
    /\ orig = file
    /\ plan = NoPlan
    /\ pc = 0
    /\ procs = NoProcs
    /\ log = <<>>
    /\ bot = Unused
    /\ agent = Unused
    /\ handler = Unused

CallSeeFileChunks(path) ==
    LET r == SeeFileChunks(path, exists, file)
    IN  /\ last = NoCall
        /\ last' = [op |-> "see_file_chunks", path |-> path, err |-> r.err,
                    out |-> r.out, acc |-> r.acc, before |-> file]
        /\ UNCHANGED <<file, scan, orig, plan, pc, exists, procs, log, bot, agent, handler>>

CallEditFileChunk(path, chunkID, newContent) ==
    LET r == EditFileChunk(path, chunkID, newContent, exists, file)
    IN  /\ last = NoCall
        /\ file' = r.file
        /\ last' = [op |-> "edit_file_chunk", path |-> path, id |-> chunkID,
                    new |-> newContent, err |-> r.err, out |-> r.out,
                    acc |-> r.acc, before |-> file]
        /\ UNCHANGED <<scan, orig, plan, pc, exists, procs, log, bot, agent, handler>>

CallReplaceConflictChunk(path, chunkID, newContent) ==
    LET r == ReplaceConflictChunkAt(path, chunkID, newContent, exists, file)
    IN  /\ last = NoCall
        /\ file' = r.file
        /\ last' = [op |-> "replace_conflict_chunk", path |-> path,
                    id |-> chunkID, new |-> newContent, err |-> r.err,
                    acc |-> r.acc, before |-> file]
        /\ UNCHANGED <<scan, orig, plan, pc, exists, procs, log, bot, agent, handler>>

ToolsNext ==
    \E path \in Paths :
        \/ CallSeeFileChunks(path)
        \/ \E chunkID \in ToolChunkIDs, newContent \in ToolNewContents :
              \/ CallEditFileChunk(path, chunkID, newContent)
              \/ CallReplaceConflictChunk(path, chunkID, newContent)

SpecTools == ToolsInit /\ [][ToolsNext]_vars

----------------------------------------------------------------------------
(* Sequences of read calls on one file: HasMergeConflicts, the scan of the  *)
(* content of the file, see_file_chunks                                     *)

\* Number of read calls of a sequence.
MaxReads == 3

\* The contents of the file read: a text line, a line with a start marker
\* inside it, a region, a start-marker line with its region left open.
ReadContents ==
    { <<"a">>, LineMidMarker,
      TextOf(<<LineStart, <<"a">>, LineDivider, <<"b">>, LineEnd>>),
      TextOf(<<LineStart, <<"a">>>>) }

ReadsInit ==
    /\ exists \in BOOLEAN
    /\ file \in IF exists THEN ReadContents ELSE { <<>> }
    /\ last = NoCall
    /\ scan = NoScan
    /\ orig = file
    /\ plan = NoPlan
    /\ pc = 0
    /\ procs = NoProcs
    /\ log = <<>>
    /\ bot = Unused
    /\ agent = Unused
    /\ handler = Unused

ReadHasMergeConflicts(path) ==
    LET r == HasMergeConflictsAt(path, exists, file)
    IN  /\ Len(log) < MaxReads
        /\ log' = Append(log, [op |-> "has_merge_conflicts", path |-> path,
                               err |-> r.err, res |-> r.val, acc |-> r.acc])
        /\ UNCHANGED <<file, last, scan, orig, plan, pc, exists, procs, bot,
                       agent, handler>>

\* FindConflictChunks on the content of the file, read by the caller.
ReadScan ==
    LET r == FindConflictChunks(file)
    IN  /\ Len(log) < MaxReads
        /\ exists
        /\ log' = Append(log, [op |-> "scan", path |-> FilePath,
                               err |-> r.err, res |-> r.chunks,
                               acc |-> <<"read">>])
        /\ UNCHANGED <<file, last, scan, orig, plan, pc, exists, procs, bot,
                       agent, handler>>

\* ReadSeeFileChunks as a bug would have it: the tool writes the lines it
\* has split back to the file, each ended by "\n".
ReadSeeFileChunksWritesBack(path) ==
    LET r == SeeFileChunks(path, exists, file)
    IN  /\ Len(log) < MaxReads
        /\ log' = Append(log, [op |-> "see_file_chunks", path |-> path,
                               err |-> r.err, res |-> r.out, acc |-> r.acc])
        /\ file' = IF r.out.kind = "listing"
                   THEN JoinTrailingNewline(Split(file)) ELSE file
        /\ UNCHANGED <<last, scan, orig, plan, pc, exists, procs, bot,
                       agent, handler>>

ReadSeeFileChunks(path) ==
    LET r == SeeFileChunks(path, exists, file)
    IN  /\ Len(log) < MaxReads
        /\ log' = Append(log, [op |-> "see_file_chunks", path |-> path,
                               err |-> r.err, res |-> r.out, acc |-> r.acc])
        /\ UNCHANGED <<file, last, scan, orig, plan, pc, exists, procs, bot,
                       agent, handler>>

ReadsNext ==
    \/ \E path \in Paths :
          \/ ReadHasMergeConflicts(path)
          \/ ReadSeeFileChunks(path)
    \/ ReadScan

SpecReads == ReadsInit /\ [][ReadsNext]_vars

----------------------------------------------------------------------------
(* ReplaceConflictChunk step by step.  A call reads the file (os.ReadFile),  *)
(* scans what it read and builds the new content in memory, then writes it  *)
(* with os.WriteFile, which opens the file truncating it and then writes    *)
(* the data from the beginning.  Either step of os.WriteFile can fail.      *)
(* Nothing in the code orders the steps of two calls on the same file.      *)

\* The chunk ids a caller of this section passes, and the replacement text
\* of each caller.
StepChunkIDs == {0, 1}

StepNewContents == << <<"x">>, <<"y">> >>

\* A caller that has not called yet.
Idle ==
    [pc |-> "idle", id |-> 0, new |-> <<>>, content |-> <<>>, data |-> <<>>,
     err |-> "nil", stale |-> FALSE]

\* os.WriteFile's write of data at the beginning of an open file that holds
\* old: the bytes of old beyond the length of data stay.
WrittenOver(old, data) == data \o SubSeq(old, Len(data) + 1, Len(old))

\* Lines 121-151: the call reads the file and, from what it read, either
\* returns an error or has the new content ready for writing.
StepRead(p, chunkID) ==
    /\ procs[p].pc = "idle"
    /\ LET newContent == StepNewContents[p]
           r == ReplaceConflictChunk(file, chunkID, newContent)
       IN  procs' = [procs EXCEPT ![p] =
                        [pc |-> IF r.err = "nil" THEN "read" ELSE "done",
                         id |-> chunkID, new |-> newContent, content |-> file,
                         data |-> r.file, err |-> r.err, stale |-> FALSE]]
    /\ UNCHANGED <<file, last, scan, orig, plan, pc, exists, log, bot, agent, handler>>

\* StepOpen as a bug would have it: the file is opened without O_TRUNC.
StepOpenNoTruncate(p) ==
    /\ procs[p].pc = "read"
    /\ procs' = [procs EXCEPT ![p].pc = "opened"]
    /\ UNCHANGED <<file, last, scan, orig, plan, pc, exists, log, bot, agent, handler>>

\* os.WriteFile opens the file: the file is truncated.
StepOpen(p) ==
    /\ procs[p].pc = "read"
    /\ file' = <<>>
    /\ procs' = [procs EXCEPT ![p].pc = "opened"]
    /\ UNCHANGED <<last, scan, orig, plan, pc, exists, log, bot, agent, handler>>

\* os.WriteFile writes the data and the call returns nil.  A caller that has
\* read and not yet opened now holds a stale content.
StepWrite(p) ==
    /\ procs[p].pc = "opened"
    /\ file' = WrittenOver(file, procs[p].data)
    /\ procs' = [q \in DOMAIN procs |->
                    IF q = p THEN [procs[q] EXCEPT !.pc = "done"]
                    ELSE IF procs[q].pc = "read"
                    THEN [procs[q] EXCEPT !.stale = TRUE]
                    ELSE procs[q]]
    /\ UNCHANGED <<last, scan, orig, plan, pc, exists, log, bot, agent, handler>>

\* os.WriteFile cannot open the file: the call returns "failed to write file".
StepOpenFails(p) ==
    /\ procs[p].pc = "read"
    /\ procs' = [procs EXCEPT ![p].pc = "done",
                               ![p].err = "failed to write file"]
    /\ UNCHANGED <<file, last, scan, orig, plan, pc, exists, log, bot, agent, handler>>

\* os.WriteFile's write fails after n bytes of the data: the call returns
\* "failed to write file".
StepWriteFails(p, n) ==
    /\ procs[p].pc = "opened"
    /\ n < Len(procs[p].data)
    /\ file' = WrittenOver(file, SubSeq(procs[p].data, 1, n))
    /\ procs' = [procs EXCEPT ![p].pc = "done",
                               ![p].err = "failed to write file"]
    /\ UNCHANGED <<last, scan, orig, plan, pc, exists, log, bot, agent, handler>>

\* One call, any step of whose os.WriteFile can fail.
WriteInit ==
    /\ file \in FileContents
    /\ last = NoCall
    /\ scan = NoScan
    /\ orig = file
    /\ plan = NoPlan
    /\ pc = 0
    /\ exists = TRUE
    /\ procs = <<Idle>>
    /\ log = <<>>
    /\ bot = Unused
    /\ agent = Unused
    /\ handler = Unused

\* The numbers of bytes a failing write has written.
WrittenLengths == {0, 1, 8}

WriteNext ==
    \/ \E chunkID \in StepChunkIDs : StepRead(1, chunkID)
    \/ StepOpen(1)
    \/ StepWrite(1)
    \/ StepOpenFails(1)
    \/ \E n \in WrittenLengths : StepWriteFails(1, n)

SpecWrite == WriteInit /\ [][WriteNext]_vars

\* Two calls on the same file, their steps in any order, no step failing.
ConcurrentInit ==
    /\ file \in FileContents
    /\ last = NoCall
    /\ scan = NoScan
    /\ orig = file
    /\ plan = NoPlan
    /\ pc = 0
    /\ exists = TRUE
    /\ procs = <<Idle, Idle>>
    /\ log = <<>>
    /\ bot = Unused
    /\ agent = Unused
    /\ handler = Unused

ConcurrentNext ==
    \E p \in {1, 2} :
        \/ \E chunkID \in StepChunkIDs : StepRead(p, chunkID)
        \/ StepOpen(p)
        \/ StepWrite(p)

SpecConcurrent == ConcurrentInit /\ [][ConcurrentNext]_vars

----------------------------------------------------------------------------
(* The GitHub bot (bot/src/index.ts) handling one pull_request event.  A    *)
(* comment body is the sequence of its words; out is what the bot has sent, *)
(* in order: comments on the pull request and requests to the GitSynth API. *)
(* Every call to GitHub and the request to the API can fail.                *)

DetectedBody ==
    <<"GitSynth", "detected", "merge", "conflicts", ".", "Attempting", "to",
      "resolve", "them", "automatically", "...">>

ResolvedBody ==
    <<"GitSynth", "has", "resolved", "the", "merge", "conflicts", ".",
      "Please", "check", "the", "PR", "!">>

\* The body of the failure comment: a fixed sentence and the error.
ErrorBody(error) ==
    <<"GitSynth", "encountered", "an", "error", "while", "trying", "to",
      "resolve", "merge", "conflicts", ":", error>>

Comment(body) == [kind |-> "comment", body |-> body]

RunRequest == [kind |-> "api", body |-> <<"POST", "/api/run">>]

\* What pull_request.mergeable and mergeable_state can be, and how the
\* GitSynth API can answer: with a success status, with a success status
\* and a body that is not JSON, with an error status, not at all.
Mergeables == {"true", "false", "null"}

MergeableStates == {"dirty", "clean", "unknown"}

Responses == {"ok", "ok not json", "error status", "network error"}

BotInit ==
    /\ bot \in [pc : {"received"},
                 action : {"opened", "synchronize"},
                 mergeable : Mergeables,
                 state : MergeableStates,
                 updated : { [mergeable |-> "none", state |-> "none"] },
                 out : { <<>> },
                 githubFailed : {FALSE},
                 response : {"none"},
                 error : {"none"}]
    /\ file = <<>>
    /\ last = NoCall
    /\ scan = NoScan
    /\ orig = <<>>
    /\ plan = NoPlan
    /\ pc = 0
    /\ exists = FALSE
    /\ procs = NoProcs
    /\ log = <<>>
    /\ agent = Unused
    /\ handler = Unused

BotFrame ==
    UNCHANGED <<file, last, scan, orig, plan, pc, exists, procs, log, agent,
                handler>>

\* Lines 16-59: the handler decides from the payload.
BotHandle ==
    /\ bot.pc = "received"
    /\ bot' = [bot EXCEPT !.pc =
                  IF bot.mergeable = "null" THEN "refetch"
                  ELSE IF bot.mergeable = "false" /\ bot.state = "dirty"
                  THEN "process"
                  ELSE "done"]
    /\ BotFrame

\* Lines 33-51: after the wait, pulls.get returns the pull request again.
BotRefetch(mergeable, state) ==
    /\ bot.pc = "refetch"
    /\ bot' = [bot EXCEPT !.updated = [mergeable |-> mergeable,
                                              state |-> state],
                          !.pc = IF mergeable = "false" /\ state = "dirty"
                                 THEN "process" ELSE "done"]
    /\ BotFrame

\* pulls.get throws: the handler's catch (line 60) logs and returns.
BotRefetchFails ==
    /\ bot.pc = "refetch"
    /\ bot' = [bot EXCEPT !.pc = "done", !.githubFailed = TRUE]
    /\ BotFrame

\* Lines 72-77: the first comment.
BotPostDetected ==
    /\ bot.pc = "process"
    /\ bot' = [bot EXCEPT !.pc = "auth",
                          !.out = Append(@, Comment(DetectedBody))]
    /\ BotFrame

BotPostDetectedFails ==
    /\ bot.pc = "process"
    /\ bot' = [bot EXCEPT !.pc = "catch", !.githubFailed = TRUE,
                          !.error = "github"]
    /\ BotFrame

\* Lines 80-84: the installation token.
BotAuth ==
    /\ bot.pc = "auth"
    /\ bot' = [bot EXCEPT !.pc = "fetch"]
    /\ BotFrame

BotAuthFails ==
    /\ bot.pc = "auth"
    /\ bot' = [bot EXCEPT !.pc = "catch", !.githubFailed = TRUE,
                          !.error = "github"]
    /\ BotFrame

\* Lines 96-114: the request to the API and what comes back.
BotFetch(response) ==
    /\ bot.pc = "fetch"
    /\ bot' = [bot EXCEPT !.out = Append(@, RunRequest),
                          !.response = response,
                          !.pc = IF response = "ok" THEN "result" ELSE "catch",
                          !.error = IF response = "ok" THEN "none" ELSE response]
    /\ BotFrame

\* Lines 117-122: the comment after a successful response.
BotPostResult ==
    /\ bot.pc = "result"
    /\ bot' = [bot EXCEPT !.pc = "done",
                          !.out = Append(@, Comment(ResolvedBody))]
    /\ BotFrame

BotPostResultFails ==
    /\ bot.pc = "result"
    /\ bot' = [bot EXCEPT !.pc = "catch", !.githubFailed = TRUE,
                          !.error = "github"]
    /\ BotFrame

\* Lines 123-133: the catch block posts the failure comment.
BotPostError ==
    /\ bot.pc = "catch"
    /\ bot' = [bot EXCEPT !.pc = "done",
                          !.out = Append(@, Comment(ErrorBody(bot.error)))]
    /\ BotFrame

\* The failure comment throws: the handler's catch (line 60) logs.
BotPostErrorFails ==
    /\ bot.pc = "catch"
    /\ bot' = [bot EXCEPT !.pc = "done", !.githubFailed = TRUE]
    /\ BotFrame

BotNext ==
    \/ BotHandle
    \/ \E mergeable \in Mergeables, state \in MergeableStates :
          BotRefetch(mergeable, state)
    \/ BotRefetchFails
    \/ BotPostDetected
    \/ BotPostDetectedFails
    \/ BotAuth
    \/ BotAuthFails
    \/ \E response \in Responses : BotFetch(response)
    \/ BotPostResult
    \/ BotPostResultFails
    \/ BotPostError
    \/ BotPostErrorFails

SpecBot == BotInit /\ [][BotNext]_vars

----------------------------------------------------------------------------
(* Agent.Run (agent/main.go): turns of inference with retries, then the     *)
(* tools of the message.  What the model answers and which attempts fail    *)
(* is the environment's choice.  A tool call is counted, not carried out.   *)

\* Number of turns a run is given: the message of the last turn has no
\* tool_use block.
MaxTurns == 3

maxRetries == 5

\* The numbers of tool_use blocks of a message.
ToolUses == {0, 1, 2}

NoError == [kind |-> "nil"]

\* The error of an attempt: an *anthropic.Error ("api") or another one.
ErrorOf(kind, turn, attempt) ==
    [kind |-> kind, turn |-> turn, attempt |-> attempt]

\* The message of a successful attempt.
MessageOf(tools, turn, attempt) ==
    [kind |-> "message", tools |-> tools, turn |-> turn, attempt |-> attempt]

AgentInit ==
    /\ agent = [pc |-> "infer", turn |-> 1, retries |-> 0,
                finalErr |-> NoError, tries |-> <<>>,
                conversation |-> <<"prompt">>, executed |-> 0,
                lastTries |-> <<>>, lastAppended |-> FALSE, lastRan |-> 0,
                ret |-> [kind |-> "none"]]
    /\ file = <<>>
    /\ last = NoCall
    /\ scan = NoScan
    /\ orig = <<>>
    /\ plan = NoPlan
    /\ pc = 0
    /\ exists = FALSE
    /\ procs = NoProcs
    /\ log = <<>>
    /\ bot = Unused
    /\ handler = Unused

AgentFrame ==
    UNCHANGED <<file, last, scan, orig, plan, pc, exists, procs, log, bot,
                handler>>

\* The test of the retry loop as a bug would have it: one attempt more.
MoreRetriesInclusive(retries) == retries <= maxRetries

\* Line 226: the test of the retry loop.
MoreRetries(retries) == retries < maxRetries

\* Lines 249-252: the turn ends with the error in finalErr returned.
ReturnError(a, tries, err) ==
    [a EXCEPT !.pc = "returned", !.ret = err, !.finalErr = err,
              !.tries = <<>>, !.lastTries = tries, !.lastAppended = FALSE,
              !.lastRan = 0]

\* Lines 229-239: an attempt fails with an API error; the loop sleeps and
\* goes on, or ends when that was the last attempt.
AttemptApiError ==
    /\ agent.pc = "infer"
    /\ MoreRetries(agent.retries)
    /\ LET err == ErrorOf("api", agent.turn, agent.retries + 1)
           tries == Append(agent.tries, err)
       IN  agent' = IF MoreRetries(agent.retries + 1)
                    THEN [agent EXCEPT !.finalErr = err, !.tries = tries,
                                       !.retries = @ + 1]
                    ELSE ReturnError(agent, tries, err)
    /\ AgentFrame

\* Lines 229-243: an attempt fails with another error; the loop ends.
AttemptOtherError ==
    /\ agent.pc = "infer"
    /\ MoreRetries(agent.retries)
    /\ LET err == ErrorOf("other", agent.turn, agent.retries + 1)
       IN  agent' = ReturnError(agent, Append(agent.tries, err), err)
    /\ AgentFrame

\* Lines 244-270: an attempt succeeds; the loop ends; finalErr, when an
\* earlier attempt of the turn set it, is returned; else the message is
\* appended, its tools are executed, and Run returns nil when there was
\* none or appends the results and starts the next turn.
AttemptSucceeds(tools) ==
    /\ agent.pc = "infer"
    /\ MoreRetries(agent.retries)
    /\ tools > 0 => agent.turn < MaxTurns
    /\ LET msg == MessageOf(tools, agent.turn, agent.retries + 1)
           tries == Append(agent.tries, msg)
       IN  agent' =
             IF agent.finalErr # NoError
             THEN ReturnError(agent, tries, agent.finalErr)
             ELSE IF tools = 0
             THEN [agent EXCEPT !.pc = "returned", !.ret = NoError,
                                !.conversation = Append(@, "assistant"),
                                !.tries = <<>>, !.lastTries = tries,
                                !.lastAppended = TRUE, !.lastRan = 0]
             ELSE [agent EXCEPT !.turn = @ + 1, !.retries = 0,
                                !.finalErr = NoError,
                                !.conversation = @ \o <<"assistant", "tool results">>,
                                !.executed = @ + tools,
                                !.tries = <<>>, !.lastTries = tries,
                                !.lastAppended = TRUE, !.lastRan = tools]
    /\ AgentFrame

AgentNext ==
    \/ AttemptApiError
    \/ AttemptOtherError
    \/ \E tools \in ToolUses : AttemptSucceeds(tools)

SpecAgent == AgentInit /\ [][AgentNext]_vars

----------------------------------------------------------------------------
(* RunHandler (the /api/run handler of the server) handling one request:   *)
(* the validation, then the stages in order, each of which can fail, then  *)
(* the deferred clean-up.  A stage that runs a command in the container    *)
(* fails when the command exits non-zero, and panics when the command      *)
(* cannot be executed (the result read for the message is nil).            *)

\* The requests: a valid one, and one per test the validation makes.
Requests ==
    {"valid", "bad method", "bad payload", "empty author", "empty repo",
     "bad pr id", "empty token"}

\* The stages after the validation, in order.
Stages ==
    <<"pr details", "docker", "pull", "create", "start", "git config",
      "clone", "checkout", "merge", "install", "run", "push">>

\* The stages that run a command in the container.
CommandStages ==
    {"git config", "clone", "checkout", "merge", "install", "run", "push"}

StageIndex(stage) == CHOOSE i \in 1..Len(Stages) : Stages[i] = stage

IsStage(x) == \E i \in 1..Len(Stages) : Stages[i] = x

\* The stage after whose success the clean-up is deferred, as a bug would
\* have it: after StartContainer.
RegistersDeferAfterStart(stage) == stage = "start"

\* Lines 119-135: the clean-up is deferred once CreateContainer succeeded.
RegistersDefer(stage) == stage = "create"

HandlerInit ==
    /\ handler \in [pc : {"validate"}, request : Requests, ran : { <<>> },
                     created : {FALSE}, deferred : {FALSE},
                     destroyCalls : {0}, destroyed : {"no"},
                     status : {0}, failedAt : {"none"}, cause : {"none"}]
    /\ file = <<>>
    /\ last = NoCall
    /\ scan = NoScan
    /\ orig = <<>>
    /\ plan = NoPlan
    /\ pc = 0
    /\ exists = FALSE
    /\ procs = NoProcs
    /\ log = <<>>
    /\ bot = Unused
    /\ agent = Unused

HandlerFrame ==
    UNCHANGED <<file, last, scan, orig, plan, pc, exists, procs, log, bot,
                agent>>

\* Lines 29-68: method, payload and parameters.
HandlerValidate ==
    /\ handler.pc = "validate"
    /\ handler' =
          IF handler.request = "valid"
          THEN [handler EXCEPT !.pc = Stages[1]]
          ELSE [handler EXCEPT !.pc = "returning",
                               !.status = IF handler.request = "bad method"
                                          THEN 405 ELSE 400,
                               !.failedAt = "validate",
                               !.cause = handler.request]
    /\ HandlerFrame

\* The stage succeeds: the next stage, or the success response after push.
StageSucceeds ==
    /\ IsStage(handler.pc)
    /\ LET stage == handler.pc
           i == StageIndex(stage)
       IN  handler' =
             [handler EXCEPT
                !.ran = Append(@, stage),
                !.created = @ \/ stage = "create",
                !.deferred = @ \/ RegistersDefer(stage),
                !.pc = IF i < Len(Stages) THEN Stages[i + 1] ELSE "returning",
                !.status = IF i < Len(Stages) THEN @ ELSE 200]
    /\ HandlerFrame

\* A stage that runs no command returns an error: response 500, return.
StageFails ==
    /\ IsStage(handler.pc)
    /\ handler.pc \notin CommandStages
    /\ handler' = [handler EXCEPT !.pc = "returning", !.status = 500,
                                  !.failedAt = handler.pc, !.cause = "error"]
    /\ HandlerFrame

\* The command of the stage exits non-zero (git merge: a merge with
\* conflicts): the stage returns an error: response 500, return.
StageExitsNonZero ==
    /\ handler.pc \in CommandStages
    /\ handler' = [handler EXCEPT !.pc = "returning", !.status = 500,
                                  !.failedAt = handler.pc,
                                  !.cause = "exit code"]
    /\ HandlerFrame

\* The command of the stage cannot be executed: the stage panics and the
\* handler unwinds with no response of its own.
StagePanics ==
    /\ handler.pc \in CommandStages
    /\ handler' = [handler EXCEPT !.pc = "returning",
                                  !.failedAt = handler.pc, !.cause = "panic"]
    /\ HandlerFrame

\* What DestroyContainer can come to: the container stopped and removed,
\* the stop failed, the removal failed.
DestroyOutcomes == {"removed", "stop failed", "remove failed"}

\* Lines 128-135: the deferred clean-up calls DestroyContainer; its error
\* is logged.
RunDeferred(removed) ==
    /\ handler.pc = "returning"
    /\ handler.deferred
    /\ handler' = [handler EXCEPT !.pc = "returned",
                                  !.destroyCalls = @ + 1,
                                  !.destroyed = removed]
    /\ HandlerFrame

\* The handler returns with no clean-up deferred.
ReturnPlain ==
    /\ handler.pc = "returning"
    /\ ~handler.deferred
    /\ handler' = [handler EXCEPT !.pc = "returned"]
    /\ HandlerFrame

HandlerNext ==
    \/ HandlerValidate
    \/ StageSucceeds
    \/ StageFails
    \/ StageExitsNonZero
    \/ StagePanics
    \/ \E removed \in DestroyOutcomes : RunDeferred(removed)
    \/ ReturnPlain

SpecHandler == HandlerInit /\ [][HandlerNext]_vars

----------------------------------------------------------------------------
(* Marker structure of a content, read off its lines without scanning it *)

\* The numbers (1-based) of the lines of a content that begin with a prefix.
LinesWith(content, prefix) ==
    LET lines == Split(content)
    IN  { i \in 1..Len(lines) : HasPrefix(lines[i], prefix) }

\* The k-th smallest element of a set of numbers.
Kth(S, k) == CHOOSE x \in S : Cardinality({ y \in S : y < x }) = k - 1

\* N regions: as many start, divider and end lines, the k-th start before the
\* k-th divider before the k-th end before the next start; every other line
\* has no marker prefix.
WellFormed(content) ==
    LET S == LinesWith(content, StartMarker)
        D == LinesWith(content, DividerMarker)
        E == LinesWith(content, EndMarker)
        N == Cardinality(S)
    IN  /\ Cardinality(D) = N
        /\ Cardinality(E) = N
        /\ \A k \in 1..N :
              /\ Kth(S, k) < Kth(D, k)
              /\ Kth(D, k) < Kth(E, k)
              /\ k < N => Kth(E, k) < Kth(S, k + 1)

\* A start line while a region is open: two start lines, no end line between.
HasNestedStart(content) ==
    LET S == LinesWith(content, StartMarker)
        E == LinesWith(content, EndMarker)
    IN  \E i \in S, j \in S :
            i < j /\ ~ \E e \in E : i < e /\ e < j

\* The input ends while a region is open: no start line is nested and no
\* end line follows the last start line.
EndsInsideRegion(content) ==
    LET S == LinesWith(content, StartMarker)
        E == LinesWith(content, EndMarker)
    IN  /\ S # {}
        /\ ~ HasNestedStart(content)
        /\ \A e \in E : \E i \in S : e < i

Scanned == scan # NoScan

Probed == last.op = "probe"

----------------------------------------------------------------------------
(* Claims about FindConflictChunks, checked under SpecScan *)

\* C3: a content of N well-formed regions separated by non-marker lines scans
\* without error to exactly N chunks; the i-th chunk (0-based) has ID i and
\* spans the i-th start line from the top to the i-th end line.
C3_CountAndOrder ==
    (Scanned /\ WellFormed(file)) =>
        LET S == LinesWith(file, StartMarker)
            E == LinesWith(file, EndMarker)
        IN  /\ scan.err = "nil"
            /\ Len(scan.chunks) = Cardinality(S)
            /\ \A k \in 1..Len(scan.chunks) :
                  /\ scan.chunks[k].ID = k - 1
                  /\ scan.chunks[k].StartLine = Kth(S, k)
                  /\ scan.chunks[k].EndLine = Kth(E, k)

\* Two well-formed regions with a line between them have been scanned.
C3_Witness ==
    /\ Scanned
    /\ WellFormed(file)
    /\ Len(scan.chunks) = 2
    /\ scan.chunks[1].EndLine + 1 < scan.chunks[2].StartLine

\* C4: in a well-formed content every chunk's BaseCode is the join of the
\* lines strictly between its start line and its divider, and its
\* IncomingCode the join of the lines strictly between its divider and its
\* end line, whatever the number of lines on either side.
C4_ContentFidelity ==
    (Scanned /\ WellFormed(file)) =>
        LET lines == Split(file)
            S == LinesWith(file, StartMarker)
            D == LinesWith(file, DividerMarker)
            E == LinesWith(file, EndMarker)
        IN  /\ Len(scan.chunks) = Cardinality(S)
            /\ \A k \in 1..Len(scan.chunks) :
                  /\ scan.chunks[k].BaseCode =
                        Join(SubSeq(lines, Kth(S, k) + 1, Kth(D, k) - 1))
                  /\ scan.chunks[k].IncomingCode =
                        Join(SubSeq(lines, Kth(D, k) + 1, Kth(E, k) - 1))

\* C6: a content that ends while a region is open scans to the unclosed
\* error and no chunks, with or without a divider, after any complete regions.
C6_Unterminated ==
    (Scanned /\ EndsInsideRegion(file)) =>
        (scan.err = "unclosed" /\ scan.chunks = <<>>)

\* An open region with a divider, after a complete region, has been scanned.
C6_Witness ==
    /\ Scanned
    /\ EndsInsideRegion(file)
    /\ LinesWith(file, EndMarker) # {}
    /\ \E d \in LinesWith(file, DividerMarker) :
          \A i \in LinesWith(file, StartMarker) : i < d

\* C7: a content with a start line inside an open region, before or after
\* that region's divider, scans to the nested error and no chunks at all.
C7_Nested ==
    (Scanned /\ HasNestedStart(file)) =>
        (scan.err = "nested" /\ scan.chunks = <<>>)

\* A start line after the divider of an open region has been scanned.
C7_Witness ==
    /\ Scanned
    /\ scan.err = "nested"
    /\ \E i \in LinesWith(file, StartMarker),
          d \in LinesWith(file, DividerMarker),
          j \in LinesWith(file, StartMarker) :
            /\ i < d /\ d < j
            /\ ~ \E e \in LinesWith(file, EndMarker) : i < e /\ e < j

\* C11 (probe agrees with scanner): on every content that FindConflictChunks
\* scans without error, HasMergeConflicts is true exactly when the list of
\* chunks is not empty.  Violated: the probe looks for the start marker
\* anywhere in the content, the scanner only at the beginning of a line.
C11_ProbeAgreesWithScanner ==
    (Scanned /\ Probed /\ scan.err = "nil")
        => (last.val <=> Len(scan.chunks) > 0)

\* No line of the content begins with one of the three markers.
NoMarkerLine(content) ==
    /\ LinesWith(content, StartMarker) = {}
    /\ LinesWith(content, DividerMarker) = {}
    /\ LinesWith(content, EndMarker) = {}

\* C12 (clean files): on a content none of whose lines begins with a marker,
\* FindConflictChunks returns the empty list and no error, and
\* HasMergeConflicts returns false.  Violated by a line that holds the start
\* marker after its beginning.
C12_CleanFiles ==
    (Scanned /\ Probed /\ NoMarkerLine(file))
        => /\ scan.err = "nil"
           /\ scan.chunks = <<>>
           /\ last.val = FALSE

\* The lines of a content, from line lo to line hi, that begin with a prefix.
LinesWithin(content, prefix, lo, hi) ==
    { i \in LinesWith(content, prefix) : lo <= i /\ i <= hi }

\* C13 (region structure): every chunk of a list returned without error
\* spans lines of which exactly one begins with the start marker (the first
\* of the span), exactly one with the divider marker, and exactly one with
\* the end marker (the last of the span).  Violated: a region with no divider
\* line, or with several, is returned as a chunk.
C13_RegionStructure ==
    (Scanned /\ scan.err = "nil") =>
        \A k \in 1..Len(scan.chunks) :
            LET c == scan.chunks[k]
            IN  /\ LinesWithin(file, StartMarker, c.StartLine, c.EndLine)
                      = {c.StartLine}
                /\ LinesWithin(file, EndMarker, c.StartLine, c.EndLine)
                      = {c.EndLine}
                /\ Cardinality(LinesWithin(file, DividerMarker,
                                           c.StartLine, c.EndLine)) = 1

\* C14 (chunk ordering): in a list returned without error for a content of K
\* lines, the i-th chunk (0-based) has ID i, its span satisfies
\* 1 <= StartLine <= EndLine <= K, and it ends strictly before the next
\* chunk starts.
C14_ChunkOrdering ==
    (Scanned /\ scan.err = "nil") =>
        LET K == Len(Split(file))
            n == Len(scan.chunks)
        IN  \A k \in 1..n :
                /\ scan.chunks[k].ID = k - 1
                /\ 1 <= scan.chunks[k].StartLine
                /\ scan.chunks[k].StartLine <= scan.chunks[k].EndLine
                /\ scan.chunks[k].EndLine <= K
                /\ k < n => scan.chunks[k].EndLine < scan.chunks[k + 1].StartLine

\* A list of three chunks has been returned, the first starting at line 1,
\* the last ending at the last line of the content.
C14_Witness ==
    /\ Scanned
    /\ scan.err = "nil"
    /\ Len(scan.chunks) = 3
    /\ scan.chunks[1].StartLine = 1
    /\ scan.chunks[3].EndLine = Len(Split(file))

----------------------------------------------------------------------------
(* Claims about one ReplaceConflictChunk call, checked under Spec *)

Called == last.op = "replace"

\* What scanning the file as it was before the call gives.
ScanBefore == FindConflictChunks(last.before)

\* C1: a successful call on chunk id with span [s,e] of a file with lines
\* L[1..K] leaves L[1..s-1], then the lines of newContent, then L[e+1..K],
\* joined by "\n": the lines outside the span keep their text and order and
\* no line of the span, its marker lines included, is left.
C1_SpanCorrectness ==
    (Called /\ last.err = "nil") =>
        LET L == Split(last.before)
            M == Split(file)
            T == Split(last.new)
            s == ScanBefore.chunks[last.id + 1].StartLine
            e == ScanBefore.chunks[last.id + 1].EndLine
        IN  /\ Len(M) = (s - 1) + Len(T) + (Len(L) - e)
            /\ \A i \in 1..(s - 1) : M[i] = L[i]
            /\ \A j \in 1..Len(T) : M[s - 1 + j] = T[j]
            /\ \A i \in (e + 1)..Len(L) : M[i - e + (s - 1) + Len(T)] = L[i]
            /\ file = Join(SubSeq(L, 1, s - 1) \o T \o SubSeq(L, e + 1, Len(L)))

\* A chunk with lines before and after it was replaced by a two-line text.
C1_Witness ==
    /\ Called
    /\ last.err = "nil"
    /\ ScanBefore.chunks[last.id + 1].StartLine > 1
    /\ ScanBefore.chunks[last.id + 1].EndLine < Len(Split(last.before))
    /\ Len(Split(last.new)) = 2

\* C5: on a file that scans to N chunks, a call with id < 0 or id >= N
\* returns the out-of-range error and leaves the content as it was.
C5_OutOfRange ==
    (/\ Called
     /\ ScanBefore.err = "nil"
     /\ (last.id < 0 \/ last.id >= Len(ScanBefore.chunks))) =>
        (last.err = "out of range" /\ file = last.before)

\* A call with id = N was made on a file with N >= 1 chunks.
C5_Witness ==
    /\ Called
    /\ ScanBefore.err = "nil"
    /\ Len(ScanBefore.chunks) >= 1
    /\ last.id = Len(ScanBefore.chunks)
    /\ last.err = "out of range"

\* C8: on a file whose scan fails, a call with any id and any newContent
\* returns the scan's error (nested or unclosed) and leaves the content as
\* it was.
C8_ParseFailureUntouched ==
    (Called /\ ScanBefore.err # "nil") =>
        /\ last.err = ScanBefore.err
        /\ last.err \in {"nested", "unclosed"}
        /\ file = last.before

\* A call with an id that is out of range was made on a file with a nested
\* start marker.
C8_Witness ==
    /\ Called
    /\ HasNestedStart(last.before)
    /\ last.err = "nested"
    /\ last.id = -1

\* C10: after a successful call on chunk k, if the new content scans, its
\* chunks 0..k-1 are the chunks 0..k-1 of the content before the call (ID,
\* StartLine, EndLine, BaseCode, IncomingCode).
C10_EarlierChunksUnaffected ==
    (Called /\ last.err = "nil" /\ FindConflictChunks(file).err = "nil") =>
        LET before == ScanBefore.chunks
            after == FindConflictChunks(file).chunks
        IN  /\ Len(after) >= last.id
            /\ \A i \in 1..last.id : after[i] = before[i]

\* Chunk 1 was replaced by a start-marker line and the new content scans.
C10_Witness ==
    /\ Called
    /\ last.err = "nil"
    /\ last.id >= 1
    /\ last.new = StartMarker
    /\ FindConflictChunks(file).err = "nil"

----------------------------------------------------------------------------
(* Claims about replacing every chunk in order, checked under SpecOrdered *)

\* No line of the text begins with a marker prefix.
MarkerFree(text) ==
    /\ LinesWith(text, StartMarker) = {}
    /\ LinesWith(text, DividerMarker) = {}
    /\ LinesWith(text, EndMarker) = {}

\* The text has another number of lines than the span of the chunk.
LineCountDiffers(text, chunk) ==
    Len(Split(text)) # chunk.EndLine - chunk.StartLine + 1

\* The lines from line i on, with the span of every chunk replaced by the
\* lines of its text.
RECURSIVE WithSpansReplaced(_, _, _, _)
WithSpansReplaced(lines, chunks, texts, i) ==
    IF i > Len(lines) THEN <<>>
    ELSE IF \E k \in 1..Len(chunks) : chunks[k].StartLine = i
    THEN LET k == CHOOSE k \in 1..Len(chunks) : chunks[k].StartLine = i
         IN  Split(texts[k])
             \o WithSpansReplaced(lines, chunks, texts, chunks[k].EndLine + 1)
    ELSE <<lines[i]>> \o WithSpansReplaced(lines, chunks, texts, i + 1)

\* The original file with the span of each original chunk i replaced by
\* texts[i] and every other line unchanged.
Expected == Join(WithSpansReplaced(Split(orig), scan.chunks, plan.texts, 1))

\* The texts of the plan fit the claims: marker-free, other line counts.
PlanFits ==
    \A k \in 1..Len(scan.chunks) :
        /\ MarkerFree(plan.texts[k])
        /\ LineCountDiffers(plan.texts[k], scan.chunks[k])

\* C2: on a file with N >= 2 chunks and marker-free texts of other line
\* counts than the spans, the calls for i = N-1 down to 0 all succeed, and
\* after the last one the file is the original with each original span i
\* replaced by T[i] and every other line unchanged.
C2_DescendingReplace ==
    (plan.order = "descending" /\ Len(scan.chunks) >= 2 /\ PlanFits) =>
        /\ pc >= 1 => last.err = "nil"
        /\ pc = Len(scan.chunks) => file = Expected

\* Both chunks of a file with a line between its two regions were replaced,
\* chunk 1 first, by two different texts.
C2_Witness ==
    /\ plan.order = "descending"
    /\ Len(scan.chunks) = 2
    /\ PlanFits
    /\ pc = 2
    /\ scan.chunks[1].EndLine + 1 < scan.chunks[2].StartLine
    /\ plan.texts[1] # plan.texts[2]

\* The ascending caller of a 2-chunk file has made both calls, the first
\* with a marker-free text of another line count than chunk 0's span.
AscendingDone ==
    /\ plan.order = "ascending"
    /\ Len(scan.chunks) = 2
    /\ pc = 2
    /\ MarkerFree(plan.texts[1])
    /\ MarkerFree(plan.texts[2])
    /\ LineCountDiffers(plan.texts[1], scan.chunks[1])

\* C9 as claimed: after replaceChunk(0, X), the call replaceChunk(1, Y)
\* rewrites a span of the file, and not the region of the original chunk 1.
C9_AscendingRewritesWrongSpan ==
    AscendingDone =>
        /\ last.err = "nil"
        /\ file # last.before
        /\ file # Expected

\* C9 as the code has it: after replaceChunk(0, X) the file has one chunk
\* left, so replaceChunk(1, Y) returns the out-of-range error and rewrites
\* nothing: the file is the original with the span of chunk 0 replaced by X,
\* and the lines of the original chunk 1 are all still there.
C9_AscendingSecondCallRejected ==
    AscendingDone =>
        LET L == Split(orig)
            s == scan.chunks[1].StartLine
            e == scan.chunks[1].EndLine
        IN  /\ last.id = 1
            /\ last.err = "out of range"
            /\ file = last.before
            /\ file = Join(SubSeq(L, 1, s - 1) \o Split(plan.texts[1])
                           \o SubSeq(L, e + 1, Len(L)))
            /\ NumChunks(file) = 1

\* The ascending caller's second call on a 2-chunk file came back rejected.
C9_Witness ==
    /\ AscendingDone
    /\ last.id = 1
    /\ last.err = "out of range"
    /\ plan.texts[1] # plan.texts[2]

----------------------------------------------------------------------------
(* Claims about the file after one call, checked under Spec *)

\* C15 (one chunk consumed per replacement): after a successful call whose
\* replacement text has no line beginning with a marker, scanning the file
\* again succeeds and finds exactly one chunk fewer than before the call.
C15_OneChunkConsumed ==
    (Called /\ last.err = "nil" /\ MarkerFree(last.new)) =>
        LET rescan == FindConflictChunks(file)
        IN  /\ rescan.err = "nil"
            /\ Len(rescan.chunks) = Len(ScanBefore.chunks) - 1

\* The middle of three chunks has been replaced by a marker-free text.
C15_Witness ==
    /\ Called
    /\ last.err = "nil"
    /\ MarkerFree(last.new)
    /\ Len(ScanBefore.chunks) = 3
    /\ last.id = 1

----------------------------------------------------------------------------
(* Claims about one call with a path, checked under SpecTools *)

\* The call was edit_file_chunk or ReplaceConflictChunk.
Edited == last.op \in {"edit_file_chunk", "replace_conflict_chunk"}

\* The chunk id of the call is negative or not below the number of chunks
\* of the file.
BadChunkID == last.id < 0 \/ last.id >= NumChunks(last.before)

Occurs(acc, what) == \E i \in 1..Len(acc) : acc[i] = what

\* C16 as stated (input errors precede file access): a call with an empty
\* path or with a chunk id that is negative or out of range returns an
\* error, and no access to the file (stat or read) has been made.  Violated:
\* the chunk id is tested only after the file has been stat'ed, read and
\* scanned.
C16_InputErrorsBeforeAccess ==
    (Edited /\ (last.path = <<>> \/ BadChunkID))
        => (last.err # "nil" /\ last.acc = <<>>)

\* C16 amended: a call with an empty path returns its error with no access
\* to the file; a call with a non-empty path and a chunk id that is negative
\* or out of range returns an error after the file has been stat'ed, the
\* out-of-range error itself after the file has been read too, and in
\* either case without a write: the file is unchanged.
C16_InputErrorsBeforeWrite ==
    Edited =>
        /\ last.path = <<>>
              => (last.err = "empty path" /\ last.acc = <<>> /\ file = last.before)
        /\ (last.path # <<>> /\ BadChunkID)
              => /\ last.err # "nil"
                 /\ last.acc # <<>>
                 /\ last.acc[1] = "stat"
                 /\ ~Occurs(last.acc, "write")
                 /\ file = last.before
                 /\ last.err = "out of range" => Occurs(last.acc, "read")

\* edit_file_chunk has been called on a file with one chunk with a chunk id
\* out of range, and has returned the out-of-range error after reading.
C16_Witness ==
    /\ last.op = "edit_file_chunk"
    /\ last.path = FilePath
    /\ last.id = 2
    /\ NumChunks(last.before) = 1
    /\ last.err = "out of range"
    /\ Occurs(last.acc, "read")

\* C20 (listing outcomes): see_file_chunks returns an error when the path is
\* empty or the file is missing; on an existing file it returns the non-error
\* "No merge conflicts found" result exactly when HasMergeConflicts is false
\* of the content, an error whenever FindConflictChunks fails on the
\* content, and otherwise the listing of all chunks of the scan, the i-th
\* entry (0-based) being the chunk with ID i.
C20_ListingOutcomes ==
    last.op = "see_file_chunks" =>
        IF last.path = <<>> \/ ~exists
        THEN last.err # "nil" /\ last.out.kind = "none"
        ELSE LET found == FindConflictChunks(last.before)
                 clean == last.err = "nil" /\ last.out.kind = "no conflicts"
             IN  /\ clean <=> ~HasMergeConflicts(last.before)
                 /\ found.err # "nil" => (last.err # "nil" /\ ~clean)
                 /\ (HasMergeConflicts(last.before) /\ found.err = "nil")
                       => /\ last.err = "nil"
                          /\ last.out.kind = "listing"
                          /\ last.out.found = Len(found.chunks)
                          /\ Len(last.out.chunks) = Len(found.chunks)
                          /\ \A k \in 1..Len(found.chunks) :
                                /\ last.out.chunks[k] = found.chunks[k]
                                /\ last.out.chunks[k].ID = k - 1

\* see_file_chunks has returned an error for an existing file that the
\* scanner rejects.
C20_Witness ==
    /\ last.op = "see_file_chunks"
    /\ last.path # <<>>
    /\ exists
    /\ FindConflictChunks(last.before).err # "nil"
    /\ last.err # "nil"

----------------------------------------------------------------------------
(* Claims about the steps of ReplaceConflictChunk *)

\* C17 (all-or-nothing write-back), checked under SpecWrite: when the call
\* has returned, the file holds exactly the content it had before the call
\* if an error was returned, a write error included, and exactly the new
\* content if nil was returned.  Violated: os.WriteFile truncates the file
\* when it opens it, and a write that fails afterwards leaves the file empty
\* or with a part of the new content, with an error returned.
C17_AllOrNothing ==
    procs[1].pc = "done" =>
        IF procs[1].err = "nil" THEN file = procs[1].data
        ELSE file = procs[1].content

\* C18 (lost update), checked under SpecConcurrent: whenever the write of
\* one caller has landed between the read and the write of the other, both
\* calls return nil, and once the other has written, the file is exactly
\* what that caller built from the stale content it had read and holds the
\* first writer's replacement text nowhere.
C18_LostUpdate ==
    \A a \in {1, 2} :
        LET b == 3 - a
        IN  (procs[a].pc = "done" /\ procs[a].stale) =>
                /\ procs[a].err = "nil"
                /\ procs[b].pc = "done"
                /\ procs[b].err = "nil"
                /\ file = ReplaceConflictChunk(procs[a].content, procs[a].id,
                                               procs[a].new).file
                /\ ~Contains(file, procs[b].new)

\* Caller 2 has replaced chunk 1 between caller 1's read and write, caller 1
\* has then written its replacement of chunk 0 of the content it had read:
\* chunk 1 is back in the file and caller 2's text is gone.
C18_Witness ==
    /\ procs[1].pc = "done"
    /\ procs[1].stale
    /\ procs[1].id = 0
    /\ procs[2].id = 1
    /\ procs[2].err = "nil"
    /\ Contains(file, procs[1].new)
    /\ ~Contains(file, procs[2].new)
    /\ NumChunks(file) = NumChunks(procs[1].content) - 1

----------------------------------------------------------------------------
(* Claims about calls that follow other calls, checked under SpecOrdered *)

\* C19 (fresh registry and determinism): whatever listing and replacements
\* came before a call, its error and the content of the file after it are
\* those that the content of the file at the time of the call, the chunk id
\* and the replacement text determine through a scan of that content: the
\* scan's error or the out-of-range error with the file unchanged, or nil
\* with the span that this scan gives the chunk replaced.
C19_FreshRegistry ==
    Called =>
        LET found == FindConflictChunks(last.before)
            L == Split(last.before)
        IN  IF found.err # "nil"
            THEN last.err = found.err /\ file = last.before
            ELSE IF last.id < 0 \/ last.id >= Len(found.chunks)
            THEN last.err = "out of range" /\ file = last.before
            ELSE /\ last.err = "nil"
                 /\ file = Join(SubSeq(L, 1, found.chunks[last.id + 1].StartLine - 1)
                                \o Split(last.new)
                                \o SubSeq(L, found.chunks[last.id + 1].EndLine + 1,
                                          Len(L)))

\* A second call has succeeded on a file whose chunks are no longer those the
\* caller listed before its first call.
C19_Witness ==
    /\ Called
    /\ pc >= 2
    /\ last.err = "nil"
    /\ FindConflictChunks(last.before).chunks # scan.chunks

----------------------------------------------------------------------------
(* Further claims about one call with a path, checked under SpecTools *)

\* C21 (clean file rejected by the edit operation): edit_file_chunk on an
\* existing file of which HasMergeConflicts is false returns the "no merge
\* conflicts found" error whatever the chunk id and the replacement text,
\* makes only the accesses of its own validation and of the probe (the
\* replacement step, with its stat, read and write, is not reached), and
\* leaves the file unchanged.
C21_CleanFileRejected ==
    (last.op = "edit_file_chunk" /\ last.path # <<>> /\ exists
        /\ ~HasMergeConflicts(last.before)) =>
            /\ last.err = "no merge conflicts found"
            /\ last.acc = <<"stat", "stat", "read">>
            /\ file = last.before

\* edit_file_chunk has been called with chunk id 0 on an existing file of
\* one text line and has returned the "no merge conflicts found" error.
C21_Witness ==
    /\ last.op = "edit_file_chunk"
    /\ last.path = FilePath
    /\ exists
    /\ last.before = <<"a">>
    /\ last.id = 0
    /\ last.err = "no merge conflicts found"

----------------------------------------------------------------------------
(* Claims about sequences of read calls, checked under SpecReads *)

\* C22 (read operations do not mutate): after any sequence of
\* HasMergeConflicts, FindConflictChunks and see_file_chunks calls, failed
\* or not, the content of the file is the content before the sequence, no
\* call has made a write access, and two calls of the same operation with
\* the same path have returned the same error and the same result.
C22_ReadsDoNotMutate ==
    /\ file = orig
    /\ \A i \in 1..Len(log) : ~Occurs(log[i].acc, "write")
    /\ \A i \in 1..Len(log), j \in 1..Len(log) :
          (log[i].op = log[j].op /\ log[i].path = log[j].path)
              => (log[i].err = log[j].err /\ log[i].res = log[j].res)

\* see_file_chunks has listed the chunk of the file, the content has been
\* scanned, and see_file_chunks has listed the chunk again.
C22_Witness ==
    /\ Len(log) = 3
    /\ log[1].op = "see_file_chunks"
    /\ log[1].res.kind = "listing"
    /\ log[1].res.found = 1
    /\ log[2].op = "scan"
    /\ log[3].op = "see_file_chunks"
    /\ log[3].path = log[1].path

----------------------------------------------------------------------------
(* Claims about the bot, checked under SpecBot *)

\* The pull request of the event is unmergeable with state "dirty", in the
\* payload or, when the payload has no mergeable status, when fetched again.
BotSawConflicts ==
    \/ bot.mergeable = "false" /\ bot.state = "dirty"
    \/ /\ bot.mergeable = "null"
       /\ bot.updated.mergeable = "false"
       /\ bot.updated.state = "dirty"

\* C23 (bot comment protocol): when the bot has handled an event of a pull
\* request that is unmergeable with state "dirty", no call to GitHub having
\* failed and the API having answered with a success or an error status,
\* it has sent exactly: a comment containing "GitSynth detected merge
\* conflicts", the run request to the API, and one comment, containing
\* "GitSynth has attempted to resolve" after a success status and "GitSynth
\* encountered an error" after an error status.  Violated: the comment
\* after a success says "GitSynth has resolved the merge conflicts".
C23_BotCommentProtocol ==
    (/\ bot.pc = "done"
     /\ BotSawConflicts
     /\ ~bot.githubFailed
     /\ bot.response \in {"ok", "error status"}) =>
        /\ Len(bot.out) = 3
        /\ bot.out[1].kind = "comment"
        /\ Contains(bot.out[1].body, <<"GitSynth", "detected", "merge", "conflicts">>)
        /\ bot.out[2] = RunRequest
        /\ bot.out[3].kind = "comment"
        /\ Contains(bot.out[3].body,
                    IF bot.response = "ok"
                    THEN <<"GitSynth", "has", "attempted", "to", "resolve">>
                    ELSE <<"GitSynth", "encountered", "an", "error">>)

----------------------------------------------------------------------------
(* Claims about Agent.Run, checked under SpecAgent *)

\* The turn that ended last had a failed attempt before its last attempt,
\* and its last attempt succeeded.
RetriedAndSucceeded ==
    /\ Len(agent.lastTries) >= 2
    /\ agent.lastTries[Len(agent.lastTries)].kind = "message"

\* C24 (retry then continue): when an attempt of a turn has failed with an
\* API error and a later attempt of the turn has succeeded, the message has
\* been appended to the conversation, its tools have been executed, and Run
\* has not returned an error.  Violated: finalErr keeps the error of the
\* failed attempt and Run returns it.
C24_RetryThenContinue ==
    RetriedAndSucceeded =>
        /\ agent.lastAppended
        /\ agent.lastRan = agent.lastTries[Len(agent.lastTries)].tools
        /\ agent.ret.kind \in {"none", "nil"}

\* C25 (bounded retries): a turn has at most 5 attempts; an error that is
\* not an API error is the last attempt of its turn and Run returns it (a
\* turn that begins with one has exactly one attempt); when 5 attempts have
\* failed with API errors Run returns the last of them and the turn has
\* executed no tool; Run returns nil only after a turn whose message has no
\* tool_use block.
C25_BoundedRetries ==
    LET n == Len(agent.lastTries)
    IN  /\ Len(agent.tries) <= 5
        /\ n <= 5
        /\ \A i \in 1..Len(agent.tries) : agent.tries[i].kind = "api"
        /\ \A i \in 1..n :
              agent.lastTries[i].kind = "other" =>
                  /\ i = n
                  /\ agent.pc = "returned"
                  /\ agent.ret = agent.lastTries[i]
                  /\ agent.lastRan = 0
        /\ (n = 5 /\ \A i \in 1..n : agent.lastTries[i].kind = "api") =>
              /\ agent.pc = "returned"
              /\ agent.ret = agent.lastTries[5]
              /\ agent.lastRan = 0
              /\ ~agent.lastAppended
        /\ (agent.pc = "returned" /\ agent.ret = NoError) =>
              /\ n >= 1
              /\ agent.lastTries[n].kind = "message"
              /\ agent.lastTries[n].tools = 0

\* In its second turn, after a turn with two tools, Run has returned the
\* error of the fifth of five attempts that failed with API errors.
C25_Witness ==
    /\ agent.pc = "returned"
    /\ agent.turn = 2
    /\ agent.executed = 2
    /\ Len(agent.lastTries) = 5
    /\ agent.ret = ErrorOf("api", 2, 5)

----------------------------------------------------------------------------
(* Claims about RunHandler, checked under SpecHandler *)

Ran(stage) == \E i \in 1..Len(handler.ran) : handler.ran[i] = stage

\* C26 (run pipeline reaches the agent on conflicts): when the handler has
\* returned from a valid request whose clone and checkout succeeded and
\* whose git merge exited non-zero, it has installed and run GitSynth and
\* pushed, and its response is not an error of the merge step.  Violated:
\* MergeBranch returns an error on a non-zero exit and the handler answers
\* 500 "Failed to merge branches".
C26_PipelineReachesAgent ==
    (/\ handler.pc = "returned"
     /\ Ran("clone")
     /\ Ran("checkout")
     /\ handler.failedAt = "merge"
     /\ handler.cause = "exit code") =>
        /\ Ran("install")
        /\ Ran("run")
        /\ Ran("push")
        /\ handler.status # 500

\* C27 (container cleanup): when the handler has returned, DestroyContainer
\* has been invoked exactly once if CreateContainer succeeded and not at
\* all if it did not; before the handler returns it has not been invoked.
C27_ContainerCleanup ==
    /\ handler.pc = "returned" =>
          handler.destroyCalls = IF handler.created THEN 1 ELSE 0
    /\ handler.pc # "returned" => handler.destroyCalls = 0

\* The handler has returned after StartContainer failed, with
\* DestroyContainer invoked once.
C27_Witness ==
    /\ handler.pc = "returned"
    /\ handler.created
    /\ handler.failedAt = "start"
    /\ handler.destroyCalls = 1

----------------------------------------------------------------------------
(* Claims about the chunks after the replaced one, checked under Spec *)

\* C28 (later chunks are renumbered and shifted, not altered): after a
\* successful call on chunk k of N whose replacement text is marker-free and
\* has m lines, the scan of the file has, for every former chunk j > k, a
\* chunk with ID j - 1, the same BaseCode and IncomingCode, and StartLine and
\* EndLine shifted by m minus the number of lines of the span of chunk k.
\* Violated: the lines that the scan of chunk k left in baseLines are part
\* of the BaseCode of chunk k + 1 before the call and not after it.
C28_LaterChunksShifted ==
    (Called /\ last.err = "nil" /\ MarkerFree(last.new)) =>
        LET before == ScanBefore.chunks
            after == FindConflictChunks(file).chunks
            k == last.id + 1
            shift == Len(Split(last.new))
                     - (before[k].EndLine - before[k].StartLine + 1)
        IN  /\ Len(after) = Len(before) - 1
            /\ \A j \in (k + 1)..Len(before) :
                  /\ after[j - 1].ID = before[j].ID - 1
                  /\ after[j - 1].BaseCode = before[j].BaseCode
                  /\ after[j - 1].IncomingCode = before[j].IncomingCode
                  /\ after[j - 1].StartLine = before[j].StartLine + shift
                  /\ after[j - 1].EndLine = before[j].EndLine + shift

----------------------------------------------------------------------------
(* Claims about replacing chunk 0 repeatedly, checked under SpecResolve *)

\* C29 (resolution terminates): on a file whose scan gave N chunks, each of
\* the first N calls on chunk 0 with a marker-free text succeeds; after i of
\* them the file is the original with the spans of its first i chunks
\* replaced by the texts of the calls and has N - i chunks, none after the
\* N-th; the call after the N-th, whatever its chunk id, returns the
\* out-of-range error and leaves the file unchanged.
C29_ResolutionTerminates ==
    LET N == Len(scan.chunks)
        done == IF pc <= N THEN pc ELSE N
    IN  /\ (pc >= 1 /\ pc <= N) => (last.err = "nil" /\ last.id = 0)
        /\ file = Join(WithSpansReplaced(Split(orig),
                                         SubSeq(scan.chunks, 1, done),
                                         plan.texts, 1))
        /\ FindConflictChunks(file).err = "nil"
        /\ NumChunks(file) = N - done
        /\ pc = N + 1 => (last.err = "out of range" /\ file = last.before)

\* After three successful calls on a file of three chunks, a fourth call,
\* with chunk id 0, has been rejected.
C29_Witness ==
    /\ Len(scan.chunks) = 3
    /\ pc = 4
    /\ last.id = 0
    /\ last.err = "out of range"
    /\ NumChunks(file) = 0

----------------------------------------------------------------------------
(* A claim about the regions of one scan, checked under SpecScan *)

\* The lines of the k-th chunk's span, scanned alone.
ScannedAlone(k) ==
    FindConflictChunks(Join(SubSeq(Split(file), scan.chunks[k].StartLine,
                                   scan.chunks[k].EndLine)))

\* C30 (no state leaks between regions): when the scan of a content
\* succeeds, the BaseCode and the IncomingCode of every chunk are those of
\* the one chunk found by scanning the lines of its span alone.
C30_NoLeakBetweenRegions ==
    (Scanned /\ scan.err = "nil") =>
        \A k \in 1..Len(scan.chunks) :
            /\ ScannedAlone(k).err = "nil"
            /\ Len(ScannedAlone(k).chunks) = 1
            /\ scan.chunks[k].BaseCode = ScannedAlone(k).chunks[1].BaseCode
            /\ scan.chunks[k].IncomingCode =
                   ScannedAlone(k).chunks[1].IncomingCode

\* The same, for the contents in which every region has a divider and,
\* scanned alone, a BaseCode that is not empty.
C30_NoLeakWhenOursNonEmpty ==
    (Scanned /\ scan.err = "nil"
        /\ \A k \in 1..Len(scan.chunks) :
              ScannedAlone(k).chunks[1].BaseCode # <<>>
              /\ LinesWithin(file, DividerMarker, scan.chunks[k].StartLine,
                             scan.chunks[k].EndLine) # {}) =>
        C30_NoLeakBetweenRegions

====
